---- MODULE Spec2Model ----
(***************************************************************************)
(* Model of the age estimation service (src/src/age_service): the request  *)
(* validator, the image codec, the reference face detector, the reference  *)
(* age model, the confidence interval calculator and the orchestrator      *)
(* run_inference.                                                           *)
(*                                                                         *)
(* Python values are tagged records (field t).  Real numbers are fixed     *)
(* point: a number is the integer v with value v / Scale.                  *)
(***************************************************************************)
EXTENDS Integers, Sequences, FiniteSets, TLC

VARIABLES
    pc,          \* position of the call inside run_inference
    payload,     \* the untyped request object handed to run_inference
    detector,    \* the injected detector override (or none)
    model,       \* the injected model override (or none)
    config,      \* AgeServiceConfig loaded at api.py:47
    request,     \* ValidatedRequest (api.py:48)
    image,       \* loaded.image (api.py:51)
    detector_impl, \* resolved detector (api.py:57)
    detections,  \* detector result list (api.py:58)
    cropped,     \* api.py:69
    normalised,  \* api.py:70
    prediction,  \* api.py:73
    interval,    \* (lower, upper) of api.py:75
    response,    \* the returned dictionary (api.py:77-109)
    error,       \* the exception that left run_inference, if any
    call,        \* the arguments of a direct call of confidence_interval
    result,      \* what that direct call returned or raised
    stages,      \* the stages of run_inference entered so far, in order
    detectorCalls, \* number of detect_faces invocations in this call
    modelCalls   \* number of predict invocations in this call

vars == <<pc, payload, detector, model, config, request, image, detector_impl,
          detections, cropped, normalised, prediction, interval, response,
          error, call, result, stages, detectorCalls, modelCalls, call, result>>

(***************************************************************************)
(* Fixed point and Python values                                           *)
(***************************************************************************)

\* the fixed point representation keeps four decimal digits: v stands for
\* v / Scale
Scale == 10 ^ 4

Null == [t |-> "null"]

\* Python values that can appear in a request
PyNone == [t |-> "none"]
PyBool(b) == [t |-> "bool", b |-> b]
\* a finite int or float with value v / Scale
PyNum(v) == [t |-> "num", v |-> v]
\* an integer number n
PyInteger(n) == PyNum(n * Scale)
\* an int whose magnitude exceeds the largest float (e.g. 10**400)
PyHugeInt == [t |-> "hugeint"]
PyInf == [t |-> "inf"]
PyNaN == [t |-> "nan"]
\* a string; s describes its text
PyStr(s) == [t |-> "str", s |-> s]
PyList(items) == [t |-> "list", items |-> items]
PyDict(d) == [t |-> "dict", d |-> d]

\* string texts
TxtEmpty == [k |-> "empty"]
\* the decimal digits of the integer n, e.g. "256"
TxtInt(n) == [k |-> "int", n |-> n]
\* a decimal literal with a fraction, e.g. "180.0"; value v / Scale
TxtDec(v) == [k |-> "dec", v |-> v]
\* text that is neither a number nor valid base64, e.g. "abc"
TxtJunk == [k |-> "junk"]
\* valid base64 text; ascii tells whether the decoded bytes are ASCII and
\* fields are the comma separated pieces of the decoded text
TxtB64(ascii, fields) == [k |-> "b64", ascii |-> ascii, fields |-> fields]

\* the outcome of a call: the value returned or the exception raised
Ok(v) == [raised |-> FALSE, v |-> v]
Raise(kind) == [raised |-> TRUE, err |-> [kind |-> kind]]

\* truncation toward zero of v / Scale, as int() does on a float
Trunc(v) == IF v >= 0 THEN v \div Scale ELSE -((-v) \div Scale)

\* bool(value)
PyTruthy(value) ==
    CASE value.t = "none" -> FALSE
      [] value.t = "bool" -> value.b
      [] value.t = "num" -> value.v # 0
      [] value.t = "hugeint" -> TRUE
      [] value.t = "inf" -> TRUE
      [] value.t = "nan" -> TRUE
      [] value.t = "str" -> value.s.k # "empty"
      [] value.t = "list" -> Len(value.items) > 0
      [] value.t = "dict" -> DOMAIN value.d # {}

\* float(text) for a string
FloatOfText(s) ==
    CASE s.k = "int" -> Ok([f |-> "finite", v |-> s.n * Scale])
      [] s.k = "dec" -> Ok([f |-> "finite", v |-> s.v])
      [] OTHER -> Raise("ValueError")

\* float(value): a float (finite, inf or nan) or the exception raised
PyFloat(value) ==
    CASE value.t = "none" -> Raise("TypeError")
      [] value.t = "bool" -> Ok([f |-> "finite", v |-> IF value.b THEN Scale ELSE 0])
      [] value.t = "num" -> Ok([f |-> "finite", v |-> value.v])
      [] value.t = "hugeint" -> Raise("OverflowError")
      [] value.t = "inf" -> Ok([f |-> "inf", v |-> 0])
      [] value.t = "nan" -> Ok([f |-> "nan", v |-> 0])
      [] value.t = "str" -> FloatOfText(value.s)
      [] value.t = "list" -> Raise("TypeError")
      [] value.t = "dict" -> Raise("TypeError")

\* int(text) for a string
IntOfText(s) ==
    CASE s.k = "int" -> Ok(s.n)
      [] OTHER -> Raise("ValueError")

\* int(value): an integer or the exception raised
PyInt(value) ==
    CASE value.t = "none" -> Raise("TypeError")
      [] value.t = "bool" -> Ok(IF value.b THEN 1 ELSE 0)
      [] value.t = "num" -> Ok(Trunc(value.v))
      [] value.t = "inf" -> Raise("OverflowError")
      [] value.t = "nan" -> Raise("ValueError")
      [] value.t = "str" -> IntOfText(value.s)
      [] value.t = "list" -> Raise("TypeError")
      [] value.t = "dict" -> Raise("TypeError")

(***************************************************************************)
(* exceptions.py                                                           *)
(***************************************************************************)

\* the value of ValidationError.field when no field is given (None)
NoneField == "<None>"

\* ValidationError(message, field=field); a message is the sequence of its
\* parts, the literal pieces and the values formatted into it
ValidationError(message, field) ==
    [kind |-> "ValidationError", message |-> message, field |-> field]

\* InferenceError(message, reason=reason)
InferenceError(message, reason) ==
    [kind |-> "InferenceError", message |-> message, reason |-> reason]

Throw(err) == [raised |-> TRUE, err |-> err]

(***************************************************************************)
(* validation.py                                                           *)
(***************************************************************************)

\* payload.get(key, default) on a dict d
DictGet(d, key, default) == IF key \in DOMAIN d THEN d[key] ELSE default

SetMin(S) == CHOOSE i \in S : \A j \in S : i <= j

\* _coerce_confidence_level(value, field=field)
coerce_confidence_level(value, field) ==
    LET r == PyFloat(value) IN
    IF r.raised
    THEN IF r.err.kind \in {"TypeError", "ValueError"}
         THEN Throw(ValidationError(<<"confidence level must be a number">>, field))
         ELSE r
    ELSE IF ~(r.v.f = "finite" /\ 0 < r.v.v /\ r.v.v < Scale)
         THEN Throw(ValidationError(<<"confidence level must be in (0, 1)">>, field))
         ELSE Ok(r.v.v)

HintKeys == <<"x", "y", "width", "height">>

\* int(entry[key])
CoerceHintKey(d, key) ==
    IF key \notin DOMAIN d THEN Raise("KeyError") ELSE PyInt(d[key])

\* the body of the loop of _parse_detector_hints for one entry
ParseHintEntry(entry, field) ==
    IF entry.t # "dict"
    THEN Throw(ValidationError(<<"detector_hints entries must be objects">>, field))
    ELSE LET rs == [i \in 1..4 |-> CoerceHintKey(entry.d, HintKeys[i])]
             failing == {i \in 1..4 : rs[i].raised}
         IN IF failing = {}
            THEN Ok([x |-> rs[1].v, y |-> rs[2].v,
                     width |-> rs[3].v, height |-> rs[4].v])
            ELSE LET e == rs[SetMin(failing)].err IN
                 IF e.kind \in {"KeyError", "TypeError", "ValueError"}
                 THEN Throw(ValidationError(<<"invalid detector hint">>, field))
                 ELSE Throw(e)

\* _parse_detector_hints(value, field=field)
parse_detector_hints(value, field) ==
    IF value.t = "none" THEN Ok(<<>>)
    ELSE IF value.t # "list"
    THEN Throw(ValidationError(<<"detector_hints must be a list">>, field))
    ELSE LET rs == [i \in 1..Len(value.items) |-> ParseHintEntry(value.items[i], field)]
             failing == {i \in 1..Len(value.items) : rs[i].raised}
         IN IF failing = {}
            THEN Ok([i \in 1..Len(value.items) |-> rs[i].v])
            ELSE rs[SetMin(failing)]

\* the consent check testing only that the key is present
validate_consent_presence_only(d) ==
    IF "consent" \notin DOMAIN d
    THEN Throw(ValidationError(<<"consent is required">>, "consent"))
    ELSE Ok(PyTruthy(d["consent"]))

\* validation.py:57-62  the consent check of validate_payload on the dict d
validate_consent(d) ==
    IF "consent" \notin DOMAIN d
    THEN Throw(ValidationError(<<"consent is required">>, "consent"))
    ELSE IF ~PyTruthy(d["consent"])
    THEN Throw(ValidationError(<<"consent must be granted">>, "consent"))
    ELSE Ok(PyTruthy(d["consent"]))

\* validation.py:64-69  the image_base64 check of validate_payload
validate_image_base64(d) ==
    IF "image_base64" \notin DOMAIN d
    THEN Throw(ValidationError(<<"image_base64 is required">>, "image_base64"))
    ELSE IF d["image_base64"].t # "str" \/ ~PyTruthy(d["image_base64"])
    THEN Throw(ValidationError(<<"image_base64 must be a non-empty string">>,
                               "image_base64"))
    ELSE Ok(d["image_base64"])

\* validate_payload(payload, config)
validate_payload(p, cfg) ==
    IF p.t # "dict"
    THEN Throw(ValidationError(<<"payload must be an object">>, NoneField))
    ELSE
    LET consent == validate_consent(p.d)
        image_base64 == validate_image_base64(p.d)
        confidence_level ==
            coerce_confidence_level(
                DictGet(p.d, "confidence_level", PyNum(cfg.default_confidence_level)),
                "confidence_level")
        return_face_bbox ==
            PyTruthy(DictGet(p.d, "return_face_bbox", PyBool(cfg.return_face_bbox_default)))
        detector_hints ==
            parse_detector_hints(DictGet(p.d, "detector_hints", PyNone), "detector_hints")
    IN IF consent.raised THEN consent
       ELSE IF image_base64.raised THEN image_base64
       ELSE IF confidence_level.raised THEN confidence_level
       ELSE IF detector_hints.raised THEN detector_hints
       ELSE Ok([image_base64 |-> image_base64.v,
                consent |-> consent.v,
                confidence_level |-> confidence_level.v,
                return_face_bbox |-> return_face_bbox,
                detector_hints |-> detector_hints.v])

(***************************************************************************)
(* image.py                                                                *)
(***************************************************************************)

ValueError(message) == [kind |-> "ValueError", message |-> message]

SimpleImage(width, height, intensity) ==
    [width |-> width, height |-> height, intensity |-> intensity]

Max(a, b) == IF a >= b THEN a ELSE b
Min(a, b) == IF a <= b THEN a ELSE b

\* SimpleImage.crop_box(x, y, width, height)
crop_box(img, x, y, width, height) ==
    LET new_width == Max(1, Min(width, img.width - x))
        new_height == Max(1, Min(height, img.height - y))
    IN SimpleImage(new_width, new_height, img.intensity)

\* SimpleImage.resize(size)
resize(img, width, height) == SimpleImage(width, height, img.intensity)

\* SimpleImage.mean_intensity()
mean_intensity(img) == img.intensity

\* _parse_payload(payload): fields are the pieces of payload.split(",")
parse_payload(fields) ==
    IF Len(fields) # 3
    THEN Throw(ValueError(<<"image payload must be width,height,intensity">>))
    ELSE LET w == IntOfText(fields[1])
             h == IntOfText(fields[2])
             i == FloatOfText(fields[3])
         IN IF w.raised \/ h.raised \/ i.raised
            THEN Throw(ValueError(<<"image payload must be width,height,intensity">>))
            ELSE IF w.v <= 0 \/ h.v <= 0
            THEN Throw(ValueError(<<"image dimensions must be positive">>))
            ELSE IF ~(0 <= i.v.v /\ i.v.v <= 255 * Scale)
            THEN Throw(ValueError(<<"intensity must be between 0 and 255">>))
            ELSE Ok(SimpleImage(w.v, h.v, i.v.v))

\* load_base64_image(data), data a str
load_base64_image(data) ==
    IF data.s.k # "b64"
    THEN Throw(ValueError(<<"Invalid base64 encoded image">>))
    ELSE IF ~data.s.ascii
    THEN Throw(ValueError(<<"Image payload must be ASCII">>))
    ELSE parse_payload(data.s.fields)

NormalisedEdge == 224

\* normalise_image(image)
normalise_image(img) == resize(img, NormalisedEdge, NormalisedEdge)

(***************************************************************************)
(* detector.py                                                             *)
(***************************************************************************)

FaceBoundingBox(x, y, width, height) ==
    [x |-> x, y |-> y, width |-> width, height |-> height]

FaceDetection(bounding_box, confidence, occluded) ==
    [bounding_box |-> bounding_box, confidence |-> confidence, occluded |-> occluded]

\* detect_faces that never looks at the hints
detect_faces_ignoring_hints(img, hints) ==
    <<FaceDetection(
          FaceBoundingBox(img.width \div 10, img.height \div 10,
                          (img.width * 8) \div 10, (img.height * 8) \div 10),
          (5 * Scale) \div 10, FALSE)>>

\* SimpleFaceDetector.detect_faces(image, hints=hints)
detect_faces(img, hints) ==
    IF Len(hints) > 0
    THEN [i \in 1..Len(hints) |-> FaceDetection(hints[i], (9 * Scale) \div 10, FALSE)]
    ELSE <<FaceDetection(
               FaceBoundingBox(img.width \div 10, img.height \div 10,
                               (img.width * 8) \div 10, (img.height * 8) \div 10),
               (5 * Scale) \div 10, FALSE)>>

\* crop_to_face(image, detection)
crop_to_face(img, detection) ==
    LET b == detection.bounding_box IN crop_box(img, b.x, b.y, b.width, b.height)

(***************************************************************************)
(* model.py                                                                *)
(***************************************************************************)

AgePrediction(value, uncertainty) == [value |-> value, uncertainty |-> uncertainty]

\* CalibratedLinearModel(slope=60.0, intercept=5.0, residual_std=7.5)
Slope == 60
Intercept == 5
ResidualStd == (75 * Scale) \div 10

\* CalibratedLinearModel.predict(image)
predict(img) ==
    AgePrediction((Slope * mean_intensity(img)) \div 255 + Intercept * Scale, ResidualStd)

\* upper clamp of the level in confidence_interval: 0.999
MaxLevel == (999 * Scale) \div 1000

\* quantiles of the standard normal distribution, in thousandths: the quantile
\* at probability 1/2 + c/2 for the central mass c (in units of 1 / Scale)
QuantileTable ==
    << <<0, 0>>, <<5000, 674>>, <<8000, 1282>>, <<9000, 1645>>,
       <<9500, 1960>>, <<9900, 2576>>, <<9990, 3291>>, <<10000, 3891>> >>

\* linear interpolation in QuantileTable
CentralQuantile(c) ==
    LET i == SetMin({j \in 1..(Len(QuantileTable) - 1) : c <= QuantileTable[j + 1][1]})
        lo == QuantileTable[i]
        hi == QuantileTable[i + 1]
    IN lo[2] + ((hi[2] - lo[2]) * (c - lo[1])) \div (hi[1] - lo[1])

\* sigma * z / 1000 rounded toward zero
Scaled(sigma, z) ==
    IF z >= 0 THEN (sigma * z) \div 1000 ELSE -((sigma * (-z)) \div 1000)

\* NormalDist(mu, sigma).inv_cdf(p), p in units of 1 / (2 * Scale)
inv_cdf(mu, sigma, p) ==
    IF p <= 0 \/ p >= 2 * Scale
    THEN Raise("StatisticsError")
    ELSE IF sigma <= 0
    THEN Raise("StatisticsError")
    ELSE Ok(IF p >= Scale
            THEN mu + Scaled(sigma, CentralQuantile(p - Scale))
            ELSE mu - Scaled(sigma, CentralQuantile(Scale - p)))

\* confidence_interval(prediction, level)
confidence_interval(pred, level) ==
    LET clamped == Max(Min(level, MaxLevel), 0) IN
    IF clamped <= 0
    THEN Ok(<<pred.value, pred.value>>)
    ELSE IF pred.uncertainty < 0
    THEN Raise("StatisticsError")
    ELSE LET tail == Scale - clamped
             lower == inv_cdf(pred.value, pred.uncertainty, tail)
             upper == inv_cdf(pred.value, pred.uncertainty, 2 * Scale - tail)
         IN IF lower.raised THEN lower
            ELSE IF upper.raised THEN upper
            ELSE Ok(<<lower.v, upper.v>>)

(***************************************************************************)
(* config.py: the configurations load_config can return                    *)
(***************************************************************************)

\* AgeServiceConfig.from_mapping default of min_image_edge
DefaultMinImageEdge == 128

ModelMetadata ==
    [name |-> "CalibratedLinearNet", version |-> "1.0.0"]

AgeServiceConfig(min_image_edge, default_confidence_level, return_face_bbox_default) ==
    [min_image_edge |-> min_image_edge,
     detector_name |-> "simple",
     model_metadata |-> ModelMetadata,
     default_confidence_level |-> default_confidence_level,
     return_face_bbox_default |-> return_face_bbox_default]

\* min_image_edge is any int, default_confidence_level any float (0.9 by
\* default; 1.0 is a configuration the validator rejects), the flag any bool
Configs ==
    {AgeServiceConfig(e, l, b) :
        e \in {DefaultMinImageEdge \div 2, DefaultMinImageEdge},
        l \in {(9 * Scale) \div 10, Scale},
        b \in BOOLEAN}

(***************************************************************************)
(* api.py: run_inference, one action per stage                             *)
(***************************************************************************)

\* the detector and model arguments of run_inference
NoOverride == PyNone
InjectedDetector == [t |-> "detector", name |-> "stub"]
SimpleFaceDetector == [t |-> "detector", name |-> "simple"]
InjectedModel == [t |-> "model", name |-> "stub-model"]
CalibratedLinearModel == [t |-> "model", name |-> "calibrated-linear"]

\* _resolve_detector(config, provided)
resolve_detector(cfg, provided) ==
    IF provided.t # "none" THEN provided ELSE SimpleFaceDetector

\* _resolve_model(config, provided)
resolve_model(cfg, provided) ==
    IF provided.t # "none" THEN provided ELSE CalibratedLinearModel

\* _validate_image_size rejecting an edge equal to the minimum
validate_image_size_exclusive(img, cfg) ==
    IF Min(img.width, img.height) <= cfg.min_image_edge
    THEN Throw(ValidationError(<<"image must be at least ", cfg.min_image_edge,
                                 "px on each edge">>, "image_base64"))
    ELSE Ok(PyNone)

\* _validate_image_size(image, config)
validate_image_size(img, cfg) ==
    IF Min(img.width, img.height) < cfg.min_image_edge
    THEN Throw(ValidationError(<<"image must be at least ", cfg.min_image_edge,
                                 "px on each edge">>, "image_base64"))
    ELSE Ok(PyNone)

\* an exception leaves run_inference
Fail(err) == pc' = "failed" /\ error' = err

\* the call enters the named stage
Enter(stage) == stages' = Append(stages, stage)

\* api.py:47  config = load_config(config_path)
LoadConfig ==
    /\ pc = "start"
    /\ Enter("load_config")
    /\ \/ \E c \in Configs : config' = c /\ pc' = "configured" /\ error' = error
       \/ config' = config /\ Fail([kind |-> "FileNotFoundError"])
    /\ UNCHANGED <<payload, detector, model, request, image, detector_impl,
                   detections, cropped, normalised, prediction, interval,
                   response, detectorCalls, modelCalls, call, result>>

\* api.py:48  request = validate_payload(payload, config)
Validate ==
    /\ pc = "configured"
    /\ Enter("validate_payload")
    /\ LET r == validate_payload(payload, config) IN
       IF r.raised
       THEN Fail(r.err) /\ request' = request
       ELSE request' = r.v /\ pc' = "validated" /\ error' = error
    /\ UNCHANGED <<payload, detector, model, config, image, detector_impl,
                   detections, cropped, normalised, prediction, interval,
                   response, detectorCalls, modelCalls, call, result>>

\* api.py:50-53  loaded = load_base64_image(request.image_base64)
Decode ==
    /\ pc = "validated"
    /\ Enter("load_base64_image")
    /\ LET r == load_base64_image(request.image_base64) IN
       IF r.raised
       THEN Fail(ValidationError(r.err.message, "image_base64")) /\ image' = image
       ELSE image' = r.v /\ pc' = "decoded" /\ error' = error
    /\ UNCHANGED <<payload, detector, model, config, request, detector_impl,
                   detections, cropped, normalised, prediction, interval,
                   response, detectorCalls, modelCalls, call, result>>

\* the resolution check recording its error without ending the call: the
\* later stages still run
CheckSizeDeferred ==
    /\ pc = "decoded"
    /\ Enter("validate_image_size")
    /\ LET r == validate_image_size(image, config) IN
       /\ pc' = "sized"
       /\ error' = IF r.raised THEN r.err ELSE error
    /\ UNCHANGED <<payload, detector, model, config, request, image, detector_impl,
                   detections, cropped, normalised, prediction, interval,
                   response, detectorCalls, modelCalls, call, result>>

\* api.py:55  _validate_image_size(loaded.image, config)
CheckSize ==
    /\ pc = "decoded"
    /\ Enter("validate_image_size")
    /\ LET r == validate_image_size(image, config) IN
       IF r.raised
       THEN Fail(r.err)
       ELSE pc' = "sized" /\ error' = error
    /\ UNCHANGED <<payload, detector, model, config, request, image, detector_impl,
                   detections, cropped, normalised, prediction, interval,
                   response, detectorCalls, modelCalls, call, result>>

\* the longest detection list an injected detector returns in the model
MaxDetections == 2

\* the detections an injected detector (tests: DetectorStub) can return: a
\* box wider than every image, occluded or not
StubDetections ==
    {FaceDetection(FaceBoundingBox(10, 10, 300, 120), (95 * Scale) \div 100, o) :
        o \in BOOLEAN}

StubDetectionLists ==
    UNION {[1..n -> StubDetections] : n \in 0..MaxDetections}

\* the predictions an injected model (tests: ModelStub) can return: value
\* 32.5 with uncertainty 3.0, value 30.0 with uncertainty 2.0 or 0.0
StubPredictions ==
    {AgePrediction((325 * Scale) \div 10, 3 * Scale),
     AgePrediction(30 * Scale, 2 * Scale),
     AgePrediction(30 * Scale, 0)}

\* api.py:57-58  resolve the detector and call detect_faces
Detect ==
    /\ pc = "sized"
    /\ Enter("detect_faces")
    /\ detector_impl' = resolve_detector(config, detector)
    /\ IF detector_impl'.name = "simple"
       THEN detections' = detect_faces(image, request.detector_hints)
       ELSE \E ds \in StubDetectionLists : detections' = ds
    /\ detectorCalls' = detectorCalls + 1
    /\ pc' = "detected"
    /\ UNCHANGED <<payload, detector, model, config, request, image,
                   cropped, normalised, prediction, interval,
                   response, error, modelCalls, call, result>>

\* the count check without its second test: a longer list goes on to the
\* occlusion check of its first detection
CountCheckEmptyOnly ==
    /\ pc = "detected"
    /\ Enter("count_check")
    /\ IF Len(detections) = 0
       THEN Fail(InferenceError("no faces detected", "no_faces"))
       ELSE pc' = "counted" /\ error' = error
    /\ UNCHANGED <<payload, detector, model, config, request, image, detector_impl,
                   detections, cropped, normalised, prediction, interval,
                   response, detectorCalls, modelCalls, call, result>>

\* api.py:60-63  zero detections, more than one detection
CountCheck ==
    /\ pc = "detected"
    /\ Enter("count_check")
    /\ IF Len(detections) = 0
       THEN Fail(InferenceError("no faces detected", "no_faces"))
       ELSE IF Len(detections) > 1
       THEN Fail(InferenceError("multiple faces detected", "multiple_faces"))
       ELSE pc' = "counted" /\ error' = error
    /\ UNCHANGED <<payload, detector, model, config, request, image, detector_impl,
                   detections, cropped, normalised, prediction, interval,
                   response, detectorCalls, modelCalls, call, result>>

\* api.py:65-67  the single detection is occluded
OcclusionCheck ==
    /\ pc = "counted"
    /\ Enter("occlusion_check")
    /\ IF detections[1].occluded
       THEN Fail(InferenceError("primary face appears occluded", "occluded"))
       ELSE pc' = "unoccluded" /\ error' = error
    /\ UNCHANGED <<payload, detector, model, config, request, image, detector_impl,
                   detections, cropped, normalised, prediction, interval,
                   response, detectorCalls, modelCalls, call, result>>

\* api.py:69  cropped = crop_to_face(loaded.image, detection)
Crop ==
    /\ pc = "unoccluded"
    /\ Enter("crop_to_face")
    /\ cropped' = crop_to_face(image, detections[1])
    /\ pc' = "cropped"
    /\ UNCHANGED <<payload, detector, model, config, request, image, detector_impl,
                   detections, normalised, prediction, interval,
                   response, error, detectorCalls, modelCalls, call, result>>

\* api.py:70  normalised = normalise_image(cropped)
Normalise ==
    /\ pc = "cropped"
    /\ Enter("normalise_image")
    /\ normalised' = normalise_image(cropped)
    /\ pc' = "normalised"
    /\ UNCHANGED <<payload, detector, model, config, request, image, detector_impl,
                   detections, cropped, prediction, interval,
                   response, error, detectorCalls, modelCalls, call, result>>

\* api.py:72-73  resolve the model and call predict
Predict ==
    /\ pc = "normalised"
    /\ Enter("predict")
    /\ IF resolve_model(config, model).name = "calibrated-linear"
       THEN prediction' = predict(normalised)
       ELSE \E p \in StubPredictions : prediction' = p
    /\ modelCalls' = modelCalls + 1
    /\ pc' = "predicted"
    /\ UNCHANGED <<payload, detector, model, config, request, image, detector_impl,
                   detections, cropped, normalised, interval,
                   response, error, detectorCalls, call, result>>

\* api.py:75  lower, upper = confidence_interval(prediction, level)
Interval ==
    /\ pc = "predicted"
    /\ Enter("confidence_interval")
    /\ LET r == confidence_interval(prediction, request.confidence_level) IN
       IF r.raised
       THEN Fail(r.err) /\ interval' = interval
       ELSE interval' = r.v /\ pc' = "interval" /\ error' = error
    /\ UNCHANGED <<payload, detector, model, config, request, image, detector_impl,
                   detections, cropped, normalised, prediction,
                   response, detectorCalls, modelCalls, call, result>>

\* the echoed box taking its size from the cropped image
face_bbox_of_crop(detection) ==
    [x |-> detection.bounding_box.x, y |-> detection.bounding_box.y,
     width |-> cropped.width, height |-> cropped.height]

\* api.py:101-107  the face_bbox entry of the response
face_bbox(detection) ==
    [x |-> detection.bounding_box.x, y |-> detection.bounding_box.y,
     width |-> detection.bounding_box.width, height |-> detection.bounding_box.height]

\* api.py:77-98  the response without the optional face_bbox
BaseResponse ==
    [status |-> "success",
     age |-> [value |-> prediction.value,
              confidence_interval |-> [level |-> request.confidence_level,
                                       lower |-> interval[1],
                                       upper |-> interval[2]]],
     metadata |-> [detector |-> detector_impl.name,
                   model |-> config.model_metadata]]

\* api.py:77-109  assemble and return the response
Assemble ==
    /\ pc = "interval"
    /\ Enter("assemble")
    /\ response' =
         IF request.return_face_bbox
         THEN [k \in DOMAIN BaseResponse \cup {"face_bbox"} |->
                  IF k = "face_bbox"
                  THEN face_bbox(detections[1])
                  ELSE BaseResponse[k]]
         ELSE BaseResponse
    /\ pc' = "done"
    /\ UNCHANGED <<payload, detector, model, config, request, image, detector_impl,
                   detections, cropped, normalised, prediction, interval,
                   error, detectorCalls, modelCalls, call, result>>

(***************************************************************************)
(* The requests run_inference is called with                               *)
(***************************************************************************)

\* marks a key the dictionary does not hold
Absent == [t |-> "absent"]

\* the dictionary holding the keys of all whose value is not Absent
MkDict(all) ==
    PyDict([k \in {j \in DOMAIN all : all[j].t # "absent"} |-> all[k]])

MkPayload(consent, image_base64, confidence_level, return_face_bbox, detector_hints) ==
    MkDict([consent |-> consent, image_base64 |-> image_base64,
            confidence_level |-> confidence_level,
            return_face_bbox |-> return_face_bbox,
            detector_hints |-> detector_hints])

\* tests/test_inference.py _encode_image: base64 of "width,height,intensity"
EncodeImage(width, height, intensity) ==
    PyStr(TxtB64(TRUE, <<TxtInt(width), TxtInt(height), TxtDec(intensity * Scale)>>))

\* a hint entry {"x": x, "y": y, "width": w, "height": h}
HintEntry(x, y, w, h) ==
    MkDict([x |-> x, y |-> y, width |-> w, height |-> h])

IntHint(x, y, w, h) ==
    HintEntry(PyInteger(x), PyInteger(y), PyInteger(w), PyInteger(h))

\* the longest detector_hints list of a request in the model
MaxHints == 2

\* the lists of at most MaxHints entries
HintLists(entries) ==
    {PyList(l) : l \in UNION {[1..n -> entries] : n \in 0..MaxHints}}

\* decodable images: edges below, at and above both configured minimum edges
GoodImages ==
    {EncodeImage(256, 256, 180), EncodeImage(128, 128, 0),
     EncodeImage(127, 256, 255), EncodeImage(256, 64, 180),
     EncodeImage(64, 63, 180), EncodeImage(128, 129, 90)}

\* strings that do not decode to an image
BadImages ==
    {PyStr(TxtJunk),
     PyStr(TxtB64(FALSE, <<>>)),
     PyStr(TxtB64(TRUE, <<TxtInt(256), TxtInt(256)>>)),
     PyStr(TxtB64(TRUE, <<TxtInt(0), TxtInt(256), TxtDec(180 * Scale)>>)),
     PyStr(TxtB64(TRUE, <<TxtInt(256), TxtDec(256 * Scale), TxtDec(180 * Scale)>>)),
     PyStr(TxtB64(TRUE, <<TxtInt(256), TxtInt(256), TxtDec(300 * Scale)>>))}

\* integer hint boxes: one inside every image, one with a negative x offset
\* and a y offset beyond every image
PipelineHints ==
    {IntHint(10, 10, 100, 120), IntHint(-10, 300, 300, 10)}

\* requests of the whole pipeline
PipelinePayloads ==
    {MkPayload(c, i, l, r, h) :
        c \in {Absent, PyBool(FALSE), PyBool(TRUE)},
        i \in GoodImages \cup BadImages,
        l \in {Absent, PyNum((9 * Scale) \div 10), PyNum(MaxLevel + 5), PyNum(0)},
        r \in {Absent, PyBool(TRUE), PyBool(FALSE)},
        h \in {Absent, PyInteger(3)} \cup HintLists(PipelineHints)}

Init ==
    /\ pc = "start"
    /\ payload \in PipelinePayloads
    /\ detector \in {NoOverride, InjectedDetector}
    /\ model \in {NoOverride, InjectedModel}
    /\ config = Null
    /\ request = Null
    /\ image = Null
    /\ detector_impl = Null
    /\ detections = <<>>
    /\ cropped = Null
    /\ normalised = Null
    /\ prediction = Null
    /\ interval = <<>>
    /\ response = Null
    /\ error = Null
    /\ call = Null
    /\ result = Null
    /\ stages = <<>>
    /\ detectorCalls = 0
    /\ modelCalls = 0

Next ==
    \/ LoadConfig
    \/ Validate
    \/ Decode
    \/ CheckSize
    \/ Detect
    \/ CountCheck
    \/ OcclusionCheck
    \/ Crop
    \/ Normalise
    \/ Predict
    \/ Interval
    \/ Assemble

Spec == Init /\ [][Next]_vars

(***************************************************************************)
(* validate_payload on a wide range of requests                            *)
(***************************************************************************)

\* values of consent: missing, falsy (False, None, 0) and truthy (True, "no")
ConsentValues ==
    {Absent, PyBool(FALSE), PyNone, PyNum(0), PyBool(TRUE), PyStr(TxtJunk)}

\* values of image_base64: missing, empty, not a string, non-empty strings
ImageValues ==
    {Absent, PyStr(TxtEmpty), PyInteger(5), PyStr(TxtJunk), EncodeImage(256, 256, 180)}

\* values of confidence_level: missing; 0.9, 0.5, 0.9995, 0.0001, 0.9999;
\* 0, 1, 1.5, -0.5; None, True, 10**400, inf, nan, "0.5", "1", "abc", []
LevelValues ==
    {Absent,
     PyNum((9 * Scale) \div 10), PyNum(Scale \div 2), PyNum(MaxLevel + 5),
     PyNum(1), PyNum(Scale - 1),
     PyNum(0), PyNum(Scale), PyNum((15 * Scale) \div 10), PyNum(-(Scale \div 2)),
     PyNone, PyBool(TRUE), PyHugeInt, PyInf, PyNaN,
     PyStr(TxtDec(Scale \div 2)), PyStr(TxtInt(1)), PyStr(TxtJunk), PyList(<<>>)}

\* hint entries: integers; a float, a numeric string and a bool (coercible);
\* a missing key, None, "abc", inf and nan (not coercible); not an object
GoodHintEntries ==
    {IntHint(10, 10, 100, 120),
     HintEntry(PyNum((17 * Scale) \div 10), PyStr(TxtInt(2)), PyBool(TRUE), PyInteger(-4))}

BadHintEntries ==
    {HintEntry(PyInteger(1), PyInteger(2), PyInteger(3), Absent),
     HintEntry(PyNone, PyInteger(2), PyInteger(3), PyInteger(4)),
     HintEntry(PyInteger(1), PyStr(TxtJunk), PyInteger(3), PyInteger(4)),
     HintEntry(PyInteger(1), PyInteger(2), PyInf, PyInteger(4)),
     HintEntry(PyInteger(1), PyInteger(2), PyInteger(3), PyNaN),
     PyInteger(7)}

\* values of detector_hints that are not lists
NonListHints == {PyNone, PyInteger(3), PyStr(TxtJunk), MkDict([x |-> PyInteger(1)])}

\* requests for validate_payload: every combination of the first three
\* fields with a few hint values, every hint list with a few of the other
\* fields, and payloads that are not dictionaries
ValidatePayloads ==
    {MkPayload(c, i, l, r, h) :
        c \in ConsentValues, i \in ImageValues, l \in LevelValues,
        r \in {Absent, PyBool(TRUE)},
        h \in {Absent, PyNone, PyList(<<IntHint(10, 10, 100, 120)>>), PyInteger(3)}}
    \cup
    {MkPayload(PyBool(TRUE), EncodeImage(256, 256, 180), l, r, h) :
        l \in {Absent, PyNum(Scale \div 2), PyNum(Scale)},
        r \in {Absent, PyBool(FALSE), PyNum(0), PyStr(TxtJunk)},
        h \in {Absent} \cup NonListHints \cup HintLists(GoodHintEntries \cup BadHintEntries)}
    \cup
    {PyNone, PyList(<<>>), PyStr(TxtJunk), PyInteger(1)}

InitValidate ==
    /\ pc = "start"
    /\ payload \in ValidatePayloads
    /\ detector = NoOverride
    /\ model = NoOverride
    /\ config = Null
    /\ request = Null
    /\ image = Null
    /\ detector_impl = Null
    /\ detections = <<>>
    /\ cropped = Null
    /\ normalised = Null
    /\ prediction = Null
    /\ interval = <<>>
    /\ response = Null
    /\ error = Null
    /\ call = Null
    /\ result = Null
    /\ stages = <<>>
    /\ detectorCalls = 0
    /\ modelCalls = 0

NextValidate == LoadConfig \/ Validate

SpecValidate == InitValidate /\ [][NextValidate]_vars

(***************************************************************************)
(* confidence_interval called directly                                     *)
(***************************************************************************)

\* levels: -0.5, 0, 0.0001, 0.5, 0.9, 0.95, 0.999, 0.9995, 1, 1.5
IntervalLevels ==
    {-(Scale \div 2), 0, 1, Scale \div 2, (9 * Scale) \div 10, (95 * Scale) \div 100,
     MaxLevel, MaxLevel + 5, Scale, (15 * Scale) \div 10}

\* predictions: values 30.0 and 32.5, uncertainties 0, 2.0, 3.0 and 7.5
IntervalPredictions ==
    {AgePrediction(v, u) :
        v \in {30 * Scale, (325 * Scale) \div 10},
        u \in {0, 2 * Scale, 3 * Scale, ResidualStd}}

\* model.py:49-60  confidence_interval(prediction, level), called directly
ConfidenceIntervalCall ==
    /\ pc = "call"
    /\ result' = confidence_interval(call.prediction, call.level)
    /\ pc' = "returned"
    /\ UNCHANGED <<payload, detector, model, config, request, image, detector_impl,
                   detections, cropped, normalised, prediction, interval,
                   response, error, call, stages, detectorCalls, modelCalls>>

InitInterval ==
    /\ pc = "call"
    /\ call \in [prediction : IntervalPredictions, level : IntervalLevels]
    /\ payload = Null
    /\ detector = NoOverride
    /\ model = NoOverride
    /\ config = Null
    /\ request = Null
    /\ image = Null
    /\ detector_impl = Null
    /\ detections = <<>>
    /\ cropped = Null
    /\ normalised = Null
    /\ prediction = Null
    /\ interval = <<>>
    /\ response = Null
    /\ error = Null
    /\ result = Null
    /\ stages = <<>>
    /\ detectorCalls = 0
    /\ modelCalls = 0

NextInterval == ConfidenceIntervalCall

SpecInterval == InitInterval /\ [][NextInterval]_vars

(***************************************************************************)
(* Properties                                                              *)
(***************************************************************************)

\* the call has entered the named stage
Entered(stage) == \E i \in DOMAIN stages : stages[i] = stage

\* the call ended with InferenceError(reason=reason)
InferenceFailure(reason) ==
    pc = "failed" /\ error.kind = "InferenceError" /\ error.reason = reason

\* the call ended with ValidationError(field=field)
ValidationFailure(field) ==
    pc = "failed" /\ error.kind = "ValidationError" /\ error.field = field

\* C1: once the detector has returned, its list is classified by count
\* before occlusion: an empty list ends the call with reason no_faces, a list
\* of two or more with multiple_faces whatever the occlusion flags, a single
\* occluded detection with occluded, and a single unoccluded detection goes
\* on to the crop; exactly one of the four happens.
C1_CountBeforeOcclusion ==
    Entered("count_check") =>
        /\ Len(detections) = 0 => InferenceFailure("no_faces")
        /\ Len(detections) >= 2 => InferenceFailure("multiple_faces")
        /\ Len(detections) = 1 =>
              IF ~Entered("occlusion_check") THEN pc = "counted"
              ELSE IF detections[1].occluded THEN InferenceFailure("occluded")
              ELSE /\ ~(pc = "failed" /\ error.kind = "InferenceError")
                   /\ pc = "unoccluded" \/ Entered("crop_to_face")

\* two detections, both occluded, rejected as multiple_faces
C1_Witness ==
    /\ Len(detections) = 2
    /\ detections[1].occluded
    /\ detections[2].occluded
    /\ InferenceFailure("multiple_faces")

\* C2: a decoded image whose shorter edge is below min_image_edge ends the
\* call with ValidationError, field image_base64, message starting "image
\* must be at least"; a shorter edge at or above min_image_edge passes the
\* resolution check and the call goes on to detection.
C2_MinimumEdge ==
    Entered("validate_image_size") =>
        IF Min(image.width, image.height) < config.min_image_edge
        THEN /\ ValidationFailure("image_base64")
             /\ error.message[1] = "image must be at least "
        ELSE pc = "sized" \/ Entered("detect_faces")

\* an image whose shorter edge equals the minimum reaches the detector
C2_Witness ==
    /\ Entered("detect_faces")
    /\ Min(image.width, image.height) = config.min_image_edge

\* the value validate_payload takes as the confidence level
RawLevel == DictGet(payload.d, "confidence_level", PyNum(config.default_confidence_level))

\* the consent and image_base64 checks pass on the dictionary d
ConsentGranted(d) == "consent" \in DOMAIN d /\ PyTruthy(d["consent"])
ImageGiven(d) ==
    /\ "image_base64" \in DOMAIN d
    /\ d["image_base64"].t = "str"
    /\ d["image_base64"].s.k # "empty"

\* value is a number, or the text of one, strictly between 0 and 1
StrictlyInsideUnit(value) ==
    \/ value.t = "num" /\ 0 < value.v /\ value.v < Scale
    \/ value.t = "str" /\ value.s.k = "dec" /\ 0 < value.s.v /\ value.s.v < Scale

\* C3: the confidence level (the payload's, or the configured default) is
\* accepted only if it is a number strictly between 0 and 1: any other value
\* ends validation with ValidationError, field confidence_level, and every
\* ValidatedRequest has 0 < confidence_level < 1.
C3_LevelStrictlyInside ==
    (Entered("validate_payload") /\ payload.t = "dict"
        /\ ConsentGranted(payload.d) /\ ImageGiven(payload.d)) =>
        /\ ~StrictlyInsideUnit(RawLevel) => ValidationFailure("confidence_level")
        /\ pc # "failed" =>
              0 < request.confidence_level /\ request.confidence_level < Scale

\* C4: consent is checked before every other field: a dictionary without
\* the key and one with a falsy value both end validation with
\* ValidationError, field consent, with distinct messages, whatever the
\* other fields hold; no ValidatedRequest has consent false.
C4_ConsentFirst ==
    (Entered("validate_payload") /\ payload.t = "dict") =>
        /\ "consent" \notin DOMAIN payload.d =>
              ValidationFailure("consent") /\ error.message = <<"consent is required">>
        /\ ("consent" \in DOMAIN payload.d /\ ~PyTruthy(payload.d["consent"])) =>
              ValidationFailure("consent") /\ error.message = <<"consent must be granted">>
        /\ pc # "failed" => request.consent = TRUE

\* consent False beside an empty image_base64 and a confidence level of 1.5
C4_Witness ==
    /\ ValidationFailure("consent")
    /\ payload.t = "dict"
    /\ DOMAIN payload.d = {"consent", "image_base64", "confidence_level"}
    /\ payload.d["consent"] = PyBool(FALSE)
    /\ payload.d["image_base64"] = PyStr(TxtEmpty)
    /\ payload.d["confidence_level"] = PyNum((15 * Scale) \div 10)

\* C5: every ValidationError carries the name of the offending field: the
\* field is never None, for a payload that is not a dictionary too, and it
\* names the first failing check in the order consent, image_base64,
\* confidence_level, detector_hints.
C5_FieldAlwaysNamed ==
    (pc = "failed" /\ error.kind = "ValidationError") =>
        /\ error.field # NoneField
        /\ (payload.t = "dict" /\ ~Entered("load_base64_image")) =>
              error.field =
                 IF ~ConsentGranted(payload.d) THEN "consent"
                 ELSE IF ~ImageGiven(payload.d) THEN "image_base64"
                 ELSE IF ~StrictlyInsideUnit(RawLevel) THEN "confidence_level"
                 ELSE "detector_hints"

\* C6: cropping never yields a box exceeding the image: for the image (W,H)
\* and the box (x,y,w,h) the crop is max(1, min(w, W-x)) wide and
\* max(1, min(h, H-y)) high, between 1 and W wide and between 1 and H high,
\* and no more than the extent left of the offset (or 1).
C6_CropWithinImage ==
    Entered("crop_to_face") =>
        LET b == detections[1].bounding_box IN
        /\ cropped.width = Max(1, Min(b.width, image.width - b.x))
        /\ cropped.height = Max(1, Min(b.height, image.height - b.y))
        /\ 1 <= cropped.width /\ cropped.width <= image.width
        /\ 1 <= cropped.height /\ cropped.height <= image.height
        /\ cropped.width <= Max(1, image.width - b.x)
        /\ cropped.height <= Max(1, image.height - b.y)

EffectiveReturnFaceBbox ==
    IF "return_face_bbox" \in DOMAIN payload.d
    THEN PyTruthy(payload.d["return_face_bbox"])
    ELSE config.return_face_bbox_default

\* C8: a successful response holds face_bbox if and only if the effective
\* return_face_bbox is true; its x, y, width and height are those of the
\* detection as the detector returned it, and metadata.detector names the
\* resolved detector (the injected one when there is an override).
C8_FaceBboxEcho ==
    pc = "done" =>
        /\ "face_bbox" \in DOMAIN response <=> EffectiveReturnFaceBbox
        /\ "face_bbox" \in DOMAIN response =>
              /\ response.face_bbox.x = detections[1].bounding_box.x
              /\ response.face_bbox.y = detections[1].bounding_box.y
              /\ response.face_bbox.width = detections[1].bounding_box.width
              /\ response.face_bbox.height = detections[1].bounding_box.height
        /\ response.metadata.detector =
              IF detector = NoOverride THEN "simple" ELSE detector.name

\* the configured default echoes a box wider than the crop made from it
C8_Witness ==
    /\ pc = "done"
    /\ "return_face_bbox" \notin DOMAIN payload.d
    /\ "face_bbox" \in DOMAIN response
    /\ response.face_bbox.width > cropped.width
    /\ detector = InjectedDetector
    /\ response.metadata.detector = "stub"

\* C9: for a prediction with a non-negative uncertainty, confidence_interval
\* returns bounds symmetric about the value for every level in (0, 0.999],
\* the point interval (value, value) for a level at or below 0, and for a
\* level above 0.999 the bounds of level 0.999.
C9_SymmetricInterval ==
    (pc = "returned" /\ call.prediction.uncertainty >= 0) =>
        LET value == call.prediction.value IN
        /\ (0 < call.level /\ call.level <= MaxLevel) =>
              /\ ~result.raised
              /\ value - result.v[1] = result.v[2] - value
              /\ result.v[1] <= value /\ value <= result.v[2]
        /\ call.level <= 0 => ~result.raised /\ result.v = <<value, value>>
        /\ call.level > MaxLevel =>
              result = confidence_interval(call.prediction, MaxLevel)

\* value is a bool, an int, a finite float or the text of an integer: what
\* int() turns into an integer
IntegerCoercible(value) ==
    \/ value.t \in {"bool", "num"}
    \/ value.t = "str" /\ value.s.k = "int"

\* entry is an object holding integer-coercible x, y, width and height
WellFormedHint(entry) ==
    /\ entry.t = "dict"
    /\ \A i \in DOMAIN HintKeys :
          HintKeys[i] \in DOMAIN entry.d /\ IntegerCoercible(entry.d[HintKeys[i]])

\* C10: detector_hints is an optional list of objects: a value that is not a
\* list, and a list with an entry that is not an object, lacks one of x, y,
\* width, height or holds a value that is not integer-coercible, end
\* validation with ValidationError, field detector_hints; otherwise the
\* ValidatedRequest holds one box per entry in the order given, and none
\* when the key is missing.
C10_DetectorHints ==
    (Entered("validate_payload") /\ payload.t = "dict"
        /\ ConsentGranted(payload.d) /\ ImageGiven(payload.d)
        /\ StrictlyInsideUnit(RawLevel)) =>
        IF "detector_hints" \notin DOMAIN payload.d
        THEN pc # "failed" /\ Len(request.detector_hints) = 0
        ELSE LET hints == payload.d["detector_hints"] IN
             IF hints.t # "list"
             THEN ValidationFailure("detector_hints")
             ELSE IF \E i \in DOMAIN hints.items : ~WellFormedHint(hints.items[i])
             THEN ValidationFailure("detector_hints")
             ELSE /\ pc # "failed"
                  /\ Len(request.detector_hints) = Len(hints.items)
                  /\ \A i \in DOMAIN hints.items :
                        request.detector_hints[i] =
                           [x |-> PyInt(hints.items[i].d["x"]).v,
                            y |-> PyInt(hints.items[i].d["y"]).v,
                            width |-> PyInt(hints.items[i].d["width"]).v,
                            height |-> PyInt(hints.items[i].d["height"]).v]

\* the stages of run_inference in the order of api.py:47-109
StageOrder ==
    <<"load_config", "validate_payload", "load_base64_image",
      "validate_image_size", "detect_faces", "count_check", "occlusion_check",
      "crop_to_face", "normalise_image", "predict", "confidence_interval",
      "assemble">>

\* the position of the named stage in StageOrder
StageIndex(stage) == CHOOSE i \in DOMAIN StageOrder : StageOrder[i] = stage

\* the call failed in the named stage: it is the last stage entered
FailedIn(stage) == pc = "failed" /\ Len(stages) = StageIndex(stage)

\* C11: the stages entered are an initial part of the fixed order, each at
\* most once; a call that failed stops (no stage is enabled, no response
\* exists) and a response exists only after the last stage; the detector is
\* called at most once and only after validation, decoding and the
\* resolution check passed; the model is called at most once and only for
\* exactly one unoccluded detection; the error is that of the earliest
\* failing stage, so a sub-minimum image ends with ValidationError and
\* never reaches the detector.
C11_StageOrder ==
    /\ Len(stages) <= Len(StageOrder)
    /\ \A i \in DOMAIN stages : stages[i] = StageOrder[i]
    /\ pc = "failed" => ~ENABLED Next /\ response = Null /\ error # Null
    /\ pc # "failed" => error = Null
    /\ response # Null <=> (pc = "done" /\ Len(stages) = Len(StageOrder))
    /\ detectorCalls = (IF Entered("detect_faces") THEN 1 ELSE 0)
    /\ Entered("detect_faces") =>
          /\ ~validate_payload(payload, config).raised
          /\ ~load_base64_image(request.image_base64).raised
          /\ Min(image.width, image.height) >= config.min_image_edge
    /\ modelCalls = (IF Entered("predict") THEN 1 ELSE 0)
    /\ Entered("predict") => Len(detections) = 1 /\ ~detections[1].occluded
    /\ (Entered("validate_payload") /\ validate_payload(payload, config).raised) =>
          /\ FailedIn("validate_payload")
          /\ error = validate_payload(payload, config).err
    /\ (Entered("load_base64_image")
           /\ load_base64_image(request.image_base64).raised) =>
          FailedIn("load_base64_image") /\ ValidationFailure("image_base64")
    /\ (Entered("validate_image_size")
           /\ Min(image.width, image.height) < config.min_image_edge) =>
          FailedIn("validate_image_size") /\ ValidationFailure("image_base64")
    /\ (pc = "failed" /\ error.kind = "InferenceError") =>
          \/ FailedIn("count_check") /\ error.reason \in {"no_faces", "multiple_faces"}
          \/ FailedIn("occlusion_check") /\ error.reason = "occluded"

\* a sub-minimum image sent with an injected detector ends in the
\* resolution check with ValidationError and the detector was never called
C11_Witness ==
    /\ FailedIn("validate_image_size")
    /\ ValidationFailure("image_base64")
    /\ detector = InjectedDetector
    /\ detectorCalls = 0
    /\ modelCalls = 0
    /\ stages = SubSeq(StageOrder, 1, 4)

\* the two-tailed bounds of a normal distribution with mean pred.value and
\* standard deviation pred.uncertainty at the level itself: the quantiles at
\* (1 - level) / 2 and 1 - (1 - level) / 2
TwoTailedBounds(pred, level) ==
    <<inv_cdf(pred.value, pred.uncertainty, Scale - level),
      inv_cdf(pred.value, pred.uncertainty, Scale + level)>>

\* C12: in a successful response age.confidence_interval.level is the
\* validated confidence level of the request, and lower and upper are the
\* two-tailed bounds of the prediction at that same level, for every
\* validated level in (0, 1), those above 0.999 included.
C12_IntervalAtValidatedLevel ==
    pc = "done" =>
        LET ci == response.age.confidence_interval
            validated == coerce_confidence_level(RawLevel, "confidence_level")
            bounds == TwoTailedBounds(prediction, ci.level)
        IN /\ ~validated.raised
           /\ ci.level = validated.v
           /\ 0 < ci.level /\ ci.level < Scale
           /\ ~bounds[1].raised /\ ci.lower = bounds[1].v
           /\ ~bounds[2].raised /\ ci.upper = bounds[2].v

====
